---- MODULE Spec2Model ----
(***************************************************************************)
(* The plant-monitoring router (src/plant_monitoring.py): fourteen HTTP    *)
(* handlers over three document collections (plants, sensor_outputs,       *)
(* devices) and one object-storage bucket.                                 *)
(*                                                                         *)
(* Spec serves the requests one at a time: each handler is one action.     *)
(*                                                                         *)
(* RaceSpec serves the plant endpoints concurrently.  Every handler is an  *)
(* asyncio coroutine, which runs atomically up to each database call it    *)
(* awaits; a handler that awaits two database calls (update_plant,         *)
(* delete_plant, upload_plant_image) is there two actions, the arrival up  *)
(* to the second call and the resumption from it, and other requests run   *)
(* between the two.  A database call on one document is atomic.            *)
(*                                                                         *)
(* Database and bucket calls are taken to succeed: upstream outages are    *)
(* not part of the model.                                                  *)
(***************************************************************************)
EXTENDS Integers, Sequences, FiniteSets

\* ------------------------------------------------------------------ bounds
MaxPlants == 2      \* ObjectIds the plants collection may hand out
MaxReadings == 1    \* documents the sensor_outputs collection may hold
MaxDevices == 1     \* devices provisioned in the devices collection
MaxBlobs == 1       \* blobs the bucket may hold
NumClients == 2     \* requests that may be in flight together

Clients == 1..NumClients
MaxId == IF MaxPlants > MaxDevices THEN MaxPlants ELSE MaxDevices

\* ------------------------------------------------------- identifier strings
\* A value a request may carry where an identifier is expected.  "hex" is a
\* 24-digit hexadecimal string naming ObjectId n, written in lower or upper
\* case; "bad" is any other non-empty value; "empty" is ""; "none" is None
\* (a missing key).
NoId == [kind |-> "none", n |-> 0, upper |-> FALSE]
EmptyId == [kind |-> "empty", n |-> 0, upper |-> FALSE]
BadId == [kind |-> "bad", n |-> 0, upper |-> FALSE]
Hex(n, u) == [kind |-> "hex", n |-> n, upper |-> u]
HexIds == {Hex(n, FALSE) : n \in 1..MaxId} \cup {Hex(1, TRUE)}
StrIds == HexIds \cup {BadId, EmptyId}
AnyIds == StrIds \cup {NoId}

\* Python truthiness of the value: None and "" are falsy.
Truthy(s) == s.kind \notin {"none", "empty"}

\* bson.ObjectId(s) raises InvalidId unless s is 24 hexadecimal digits.
ObjectIdRaises(s) == s.kind # "hex"

\* bson.ObjectId(s): hexadecimal digits are read case-insensitively.
ObjectId(s) == s.n

\* str(ObjectId) and $toString: always lower-case hexadecimal.
ToString(oid) == Hex(oid, FALSE)

\* ------------------------------------------------------------------- roles
RoleSets == {{"user"}, {"plant_monitoring"}, {"admin", "user"}}

\* The role gate every handler opens with.
Unauthorized(roles) == "plant_monitoring" \notin roles /\ "admin" \notin roles

\* ------------------------------------------------------------ plant fields
\* imageUrl values: a URL sent in a request body, the public URL of the blob
\* stored under key k, or no imageUrl field at all.
NoUrl == [src |-> "absent", k |-> 0]
PayloadUrl(k) == [src |-> "payload", k |-> k]

\* blob.public_url of the blob stored under key k.
PublicUrl(k) == [src |-> "blob", k |-> k]

\* The CreatePlant bodies that requests send: name, type, location,
\* description.
FernPlant == [name |-> "fern", type |-> "indoor", location |-> "hall",
              description |-> "shade"]
CreatePlantModels == {FernPlant}

\* The fields, other than id, of the Plant bodies that requests send.
BasilPlant == [name |-> "basil", type |-> "herb", location |-> "kitchen",
               description |-> "sun", imageUrl |-> PayloadUrl(1)]
PlantBodies == {BasilPlant}

\* The Plant model: a body together with its id.
WithId(body, id) == [f \in DOMAIN body \cup {"id"} |-> IF f = "id" THEN id ELSE body[f]]
PlantModels == {WithId(b, id) : b \in PlantBodies, id \in StrIds}

\* A body that binds to the handler's parameter carries any of the values
\* `given`; one that does not bind is represented by `unbound` alone.
Bodies(bound, given, unbound) == IF bound THEN given ELSE {unbound}


\* ------------------------------------------------------------------- state
VARIABLES
    plants,          \* db["plants"]: ObjectId -> document
    plantSeq,        \* ObjectIds insert_one has generated for plants
    sensor_outputs,  \* db["sensor_outputs"]: documents in insertion order
    devices,         \* db["devices"]: ObjectId -> document
    blobs,           \* keys of the blobs in the bucket
    inflight,        \* per client: the handler suspended at its second await
    last             \* the response most recently sent

vars == <<plants, plantSeq, sensor_outputs, devices, blobs, inflight, last>>
store == <<plants, plantSeq, sensor_outputs, devices, blobs>>

Idle == [at |-> "idle", oid |-> 0, data |-> NoUrl]
NoBody == [kind |-> "none"]

\* A response: the endpoint, the HTTP status, the message and the JSON body.
Resp(op, status, detail, body) ==
    [op |-> op, status |-> status, detail |-> detail, body |-> body]

\* The gate's HTTPException(401).
Denied(op) == Resp(op, 401, "no access", NoBody)

\* A body the framework cannot bind to the handler's parameters: 422, and
\* the handler is not called.
Unprocessable(op) == Resp(op, 422, "validation error", NoBody)

\* `except Exception as e: raise HTTPException(status_code=500, ...)`.
ServerError(op) == Resp(op, 500, "exception", NoBody)

\* Pydantic's rejection of what a handler returns under its response_model:
\* raised after the handler has returned, answered with 500.
ResponseInvalid(op) == Resp(op, 500, "response validation", NoBody)

\* ------------------------------------------------------------------ plants
\* The $project stage of get_plants and get_plant.
ProjectPlant(oid, doc) ==
    [kind |-> "plant", id |-> ToString(oid), name |-> doc.name, type |-> doc.type,
     location |-> doc.location, description |-> doc.description,
     imageUrl |-> doc.imageUrl]

\* response_model=Plant needs every field of Plant, imageUrl among them.
IsPlantModel(body) == body.imageUrl # NoUrl

\* GET /GetPlants/
GetPlantsResponse(roles) ==
    IF Unauthorized(roles) THEN Denied("GetPlants")
    ELSE IF \E oid \in DOMAIN plants : ~IsPlantModel(ProjectPlant(oid, plants[oid]))
    THEN ResponseInvalid("GetPlants")
    ELSE Resp("GetPlants", 200, "ok", [kind |-> "list"])

GetPlantsReq(roles) ==
    /\ last' = GetPlantsResponse(roles)
    /\ UNCHANGED <<store, inflight>>

GetPlants == \E roles \in RoleSets : GetPlantsReq(roles)

\* GET /GetPlant over the collection ps.
GetPlantResult(ps, id) ==
    IF ~Truthy(id) THEN Resp("GetPlant", 400, "Plant ID not provided", NoBody)
    ELSE IF ObjectIdRaises(id) THEN ServerError("GetPlant")
    ELSE IF ObjectId(id) \notin DOMAIN ps THEN Resp("GetPlant", 400, "Plant not found", NoBody)
    ELSE IF ~IsPlantModel(ProjectPlant(ObjectId(id), ps[ObjectId(id)]))
    THEN ResponseInvalid("GetPlant")
    ELSE Resp("GetPlant", 200, "ok", ProjectPlant(ObjectId(id), ps[ObjectId(id)]))

GetPlantResponse(roles, bound, id) ==
    IF ~bound THEN Unprocessable("GetPlant")
    ELSE IF Unauthorized(roles) THEN Denied("GetPlant")
    ELSE GetPlantResult(plants, id)

GetPlantReq(roles, bound, id) ==
    /\ last' = GetPlantResponse(roles, bound, id)
    /\ UNCHANGED <<store, inflight>>

GetPlant ==
    \E roles \in RoleSets, bound \in BOOLEAN :
        \E id \in Bodies(bound, AnyIds, NoId) : GetPlantReq(roles, bound, id)

\* update_data that leaves a field of the body out.
UpdateDataPartial(updated_plant) ==
    [f \in DOMAIN updated_plant \ {"id", "description"} |-> updated_plant[f]]

\* updated_plant.model_dump(exclude={"id"})
UpdateData(updated_plant) == [f \in DOMAIN updated_plant \ {"id"} |-> updated_plant[f]]

\* {"$set": data} on a stored document.
SetFields(doc, data) == [f \in DOMAIN doc |-> IF f \in DOMAIN data THEN data[f] ELSE doc[f]]

\* PUT /UpdatePlant/ up to the await of update_one: the response, when the
\* handler ends before it, and NoBody when it goes on to update_one.
UpdatePlantEarly(roles, bound, updated_plant) ==
    IF ~bound THEN Unprocessable("UpdatePlant")
    ELSE IF Unauthorized(roles) THEN Denied("UpdatePlant")
    ELSE IF ObjectIdRaises(updated_plant.id) THEN ServerError("UpdatePlant")
    ELSE IF ObjectId(updated_plant.id) \notin DOMAIN plants
    THEN Resp("UpdatePlant", 400, "Plant not found", NoBody)
    ELSE NoBody

\* update_one({"_id": oid}, {"$set": data}) and the 201 that follows: the
\* collection it leaves and the response.
UpdatePlantOutcome(oid, data) ==
    LET matched == IF oid \in DOMAIN plants THEN 1 ELSE 0
    IN [plants |-> IF matched = 1 THEN [plants EXCEPT ![oid] = SetFields(@, data)]
                   ELSE plants,
        last |-> Resp("UpdatePlant", 201, "updated",
                      [kind |-> "update", matchedCount |-> matched, imageUrl |-> NoUrl])]

\* The whole handler.
UpdatePlantCall(roles, bound, updated_plant) ==
    /\ LET early == UpdatePlantEarly(roles, bound, updated_plant)
           out == UpdatePlantOutcome(ObjectId(updated_plant.id), UpdateData(updated_plant))
       IN IF early # NoBody
          THEN /\ last' = early
               /\ plants' = plants
          ELSE /\ plants' = out.plants
               /\ last' = out.last
    /\ UNCHANGED <<plantSeq, sensor_outputs, devices, blobs, inflight>>

UpdatePlant ==
    \E roles \in RoleSets, bound \in BOOLEAN :
        \E updated_plant \in Bodies(bound, PlantModels, WithId(BasilPlant, NoId)) :
            UpdatePlantCall(roles, bound, updated_plant)

\* The handler up to the await of update_one, for client c.
UpdatePlantReq(c, roles, bound, updated_plant) ==
    /\ inflight[c] = Idle
    /\ IF UpdatePlantEarly(roles, bound, updated_plant) # NoBody
       THEN /\ last' = UpdatePlantEarly(roles, bound, updated_plant)
            /\ UNCHANGED <<store, inflight>>
       ELSE /\ inflight' = [inflight EXCEPT ![c] =
                   [at |-> "update_plant", oid |-> ObjectId(updated_plant.id),
                    data |-> UpdateData(updated_plant)]]
            /\ UNCHANGED <<store, last>>

UpdatePlantArrive ==
    \E c \in Clients, roles \in RoleSets, bound \in BOOLEAN :
        \E updated_plant \in Bodies(bound, PlantModels, WithId(BasilPlant, NoId)) :
            UpdatePlantReq(c, roles, bound, updated_plant)

\* The handler from update_one on.
UpdatePlantWrite(c) ==
    /\ inflight[c].at = "update_plant"
    /\ LET out == UpdatePlantOutcome(inflight[c].oid, inflight[c].data)
       IN /\ plants' = out.plants
          /\ last' = out.last
    /\ inflight' = [inflight EXCEPT ![c] = Idle]
    /\ UNCHANGED <<plantSeq, sensor_outputs, devices, blobs>>

\* delete_plant without its existence check.
DeletePlantEarlyUnchecked(roles, bound, id) ==
    IF ~bound THEN Unprocessable("DeletePlant")
    ELSE IF Unauthorized(roles) THEN Denied("DeletePlant")
    ELSE IF ~Truthy(id) THEN Resp("DeletePlant", 400, "Plant ID not provided", NoBody)
    ELSE IF ObjectIdRaises(id) THEN ServerError("DeletePlant")
    ELSE NoBody

\* DELETE /DeletePlant/ up to the await of delete_one: the response, when
\* the handler ends before it, and NoBody when it goes on to delete_one.
DeletePlantEarly(roles, bound, id) ==
    IF ~bound THEN Unprocessable("DeletePlant")
    ELSE IF Unauthorized(roles) THEN Denied("DeletePlant")
    ELSE IF ~Truthy(id) THEN Resp("DeletePlant", 400, "Plant ID not provided", NoBody)
    ELSE IF ObjectIdRaises(id) THEN ServerError("DeletePlant")
    ELSE IF ObjectId(id) \notin DOMAIN plants
    THEN Resp("DeletePlant", 400, "Plant not found", NoBody)
    ELSE NoBody

\* The collection after delete_one({"_id": oid}).
DeleteOne(coll, oid) == [o \in DOMAIN coll \ {oid} |-> coll[o]]

\* A delete_plant that also removes the readings of the plant.
DeletePlantOutcomeCascade(oid) ==
    [plants |-> DeleteOne(plants, oid),
     sensor_outputs |-> SelectSeq(sensor_outputs, LAMBDA r : r.plant_id # oid),
     devices |-> devices,
     last |-> Resp("DeletePlant", IF oid \in DOMAIN plants THEN 201 ELSE 500,
                   "Plant deleted successfully", [kind |-> "delete", id |-> ToString(oid)])]

\* A delete_plant that also unlinks the devices of the plant.
DeletePlantOutcomeUnlink(oid) ==
    [plants |-> DeleteOne(plants, oid),
     sensor_outputs |-> sensor_outputs,
     devices |-> [d \in DOMAIN devices |->
                    IF devices[d].plant_id.v = ToString(oid)
                    THEN [devices[d] EXCEPT !.plant_id = [t |-> "null", v |-> NoId]]
                    ELSE devices[d]],
     last |-> Resp("DeletePlant", IF oid \in DOMAIN plants THEN 201 ELSE 500,
                   "Plant deleted successfully", [kind |-> "delete", id |-> ToString(oid)])]

\* delete_one and the response chosen from deleted_count: the collections
\* it leaves and the response.
DeletePlantOutcome(oid) ==
    LET deleted_count == IF oid \in DOMAIN plants THEN 1 ELSE 0
    IN [plants |-> DeleteOne(plants, oid),
        sensor_outputs |-> sensor_outputs,
        devices |-> devices,
        last |-> IF deleted_count = 1
                 THEN Resp("DeletePlant", 201, "Plant deleted successfully",
                           [kind |-> "delete", id |-> ToString(oid)])
                 ELSE Resp("DeletePlant", 500, "Failed to delete plant", NoBody)]

\* The whole handler.
DeletePlantCall(roles, bound, id) ==
    /\ LET early == DeletePlantEarly(roles, bound, id)
           out == DeletePlantOutcome(ObjectId(id))
       IN IF early # NoBody
          THEN /\ last' = early
               /\ UNCHANGED <<plants, sensor_outputs, devices>>
          ELSE /\ plants' = out.plants
               /\ sensor_outputs' = out.sensor_outputs
               /\ devices' = out.devices
               /\ last' = out.last
    /\ UNCHANGED <<plantSeq, blobs, inflight>>

DeletePlant ==
    \E roles \in RoleSets, bound \in BOOLEAN :
        \E id \in Bodies(bound, AnyIds, NoId) : DeletePlantCall(roles, bound, id)

\* The handler up to the await of delete_one, for client c.
DeletePlantReq(c, roles, bound, id) ==
    /\ inflight[c] = Idle
    /\ IF DeletePlantEarly(roles, bound, id) # NoBody
       THEN /\ last' = DeletePlantEarly(roles, bound, id)
            /\ UNCHANGED <<store, inflight>>
       ELSE /\ inflight' = [inflight EXCEPT ![c] =
                   [at |-> "delete_plant", oid |-> ObjectId(id), data |-> NoUrl]]
            /\ UNCHANGED <<store, last>>

DeletePlantArrive ==
    \E c \in Clients, roles \in RoleSets, bound \in BOOLEAN :
        \E id \in Bodies(bound, AnyIds, NoId) : DeletePlantReq(c, roles, bound, id)

\* The handler from delete_one on.
DeletePlantWrite(c) ==
    /\ inflight[c].at = "delete_plant"
    /\ LET out == DeletePlantOutcome(inflight[c].oid)
       IN /\ plants' = out.plants
          /\ sensor_outputs' = out.sensor_outputs
          /\ devices' = out.devices
          /\ last' = out.last
    /\ inflight' = [inflight EXCEPT ![c] = Idle]
    /\ UNCHANGED <<plantSeq, blobs>>

\* jsonable_encoder(plant): the document insert_one stores.
NewPlant(plant) ==
    [name |-> plant.name, type |-> plant.type, location |-> plant.location,
     description |-> plant.description, imageUrl |-> NoUrl]

\* The collection after insert_one under the ObjectId oid.
InsertOne(coll, oid, doc) == [o \in DOMAIN coll \cup {oid} |-> IF o = oid THEN doc ELSE coll[o]]

\* POST /CreatePlant/
CreatePlantReq(roles, bound, plant) ==
    IF ~bound \/ Unauthorized(roles)
    THEN /\ last' = IF ~bound THEN Unprocessable("CreatePlant") ELSE Denied("CreatePlant")
         /\ UNCHANGED <<store, inflight>>
    ELSE /\ plantSeq < MaxPlants
         /\ plantSeq' = plantSeq + 1
         /\ plants' = InsertOne(plants, plantSeq + 1, NewPlant(plant))
         /\ last' = Resp("CreatePlant", 201, "created",
                         [kind |-> "created", id |-> ToString(plantSeq + 1)])
         /\ UNCHANGED <<sensor_outputs, devices, blobs, inflight>>

CreatePlant ==
    \E roles \in RoleSets, bound \in BOOLEAN, plant \in CreatePlantModels :
        CreatePlantReq(roles, bound, plant)

\* Uploads that have passed find_one and not yet stored their blob.
Uploading == {c \in Clients : inflight[c].at = "upload_plant_image"}

\* upload_plant_image without its existence check.
UploadEarlyUnchecked(roles, bound, plant_id) ==
    IF ~bound THEN Unprocessable("UploadPlantImage")
    ELSE IF Unauthorized(roles) THEN Denied("UploadPlantImage")
    ELSE IF ObjectIdRaises(plant_id) THEN ServerError("UploadPlantImage")
    ELSE NoBody

\* POST /UploadPlantImage/ up to the blob upload: the response, when the
\* handler ends before it, and NoBody when it goes on to the upload.
UploadEarly(roles, bound, plant_id) ==
    IF ~bound THEN Unprocessable("UploadPlantImage")
    ELSE IF Unauthorized(roles) THEN Denied("UploadPlantImage")
    ELSE IF ObjectIdRaises(plant_id) THEN ServerError("UploadPlantImage")
    ELSE IF ObjectId(plant_id) \notin DOMAIN plants
    THEN Resp("UploadPlantImage", 403, "Plant not found", NoBody)
    ELSE NoBody

\* uuid4(): a key no blob of the bucket has.
FreshKey == Cardinality(blobs) + 1

\* The blob upload, update_one({"_id": oid}, {"$set": {"imageUrl": url}}) and
\* the 200 that follows: the bucket and the collection they leave, and the
\* response.
UploadOutcome(oid) ==
    LET image_url == PublicUrl(FreshKey)
        matched == IF oid \in DOMAIN plants THEN 1 ELSE 0
    IN [blobs |-> blobs \cup {FreshKey},
        plants |-> IF matched = 1
                   THEN [plants EXCEPT ![oid] = SetFields(@, [imageUrl |-> image_url])]
                   ELSE plants,
        last |-> Resp("UploadPlantImage", 200, "uploaded",
                      [kind |-> "update", matchedCount |-> matched, imageUrl |-> image_url])]

\* The whole handler.
UploadPlantImageCall(roles, bound, plant_id) ==
    /\ LET early == UploadEarly(roles, bound, plant_id)
           out == UploadOutcome(ObjectId(plant_id))
       IN IF early # NoBody
          THEN /\ last' = early
               /\ UNCHANGED <<plants, blobs>>
          ELSE /\ Cardinality(blobs) < MaxBlobs
               /\ blobs' = out.blobs
               /\ plants' = out.plants
               /\ last' = out.last
    /\ UNCHANGED <<plantSeq, sensor_outputs, devices, inflight>>

UploadPlantImage ==
    \E roles \in RoleSets, bound \in BOOLEAN :
        \E plant_id \in Bodies(bound, StrIds \ {EmptyId}, EmptyId) :
            UploadPlantImageCall(roles, bound, plant_id)

\* The handler up to the blob upload, for client c.
UploadPlantImageReq(c, roles, bound, plant_id) ==
    /\ inflight[c] = Idle
    /\ IF UploadEarly(roles, bound, plant_id) # NoBody
       THEN /\ last' = UploadEarly(roles, bound, plant_id)
            /\ UNCHANGED <<store, inflight>>
       ELSE /\ Cardinality(blobs) + Cardinality(Uploading) < MaxBlobs
            /\ inflight' = [inflight EXCEPT ![c] =
                   [at |-> "upload_plant_image", oid |-> ObjectId(plant_id), data |-> NoUrl]]
            /\ UNCHANGED <<store, last>>

UploadPlantImageArrive ==
    \E c \in Clients, roles \in RoleSets, bound \in BOOLEAN :
        \E plant_id \in Bodies(bound, StrIds \ {EmptyId}, EmptyId) :
            UploadPlantImageReq(c, roles, bound, plant_id)

\* The handler from the blob upload on.
UploadPlantImageWrite(c) ==
    /\ inflight[c].at = "upload_plant_image"
    /\ LET out == UploadOutcome(inflight[c].oid)
       IN /\ blobs' = out.blobs
          /\ plants' = out.plants
          /\ last' = out.last
    /\ inflight' = [inflight EXCEPT ![c] = Idle]
    /\ UNCHANGED <<plantSeq, sensor_outputs, devices>>

\* ---------------------------------------------------------- sensor outputs
\* The four measurements of the CreateSensorOutput bodies that requests send.
Mild == [temperature |-> 21, soil_moisture |-> 40, light_level |-> 300, humidity |-> 55]
Dry == [temperature |-> 30, soil_moisture |-> 5, light_level |-> 900, humidity |-> 20]
Measurements == {Mild, Dry}

\* The CreateSensorOutput model.
SensorModels ==
    {[plant_id |-> id, temperature |-> m.temperature, soil_moisture |-> m.soil_moisture,
      light_level |-> m.light_level, humidity |-> m.humidity] :
        id \in StrIds, m \in Measurements}

\* A body that lacks a field of the CreateSensorOutput model.
UnboundSensor == [plant_id |-> NoId, temperature |-> 0, soil_moisture |-> 0,
                  light_level |-> 0, humidity |-> 0]

\* datetime.now().isoformat() at the moments requests arrive.
Times == {"09:00"}

\* The documents the $match stage of get_sensor_outputs keeps.
MatchReadings(oid) == {i \in DOMAIN sensor_outputs : sensor_outputs[i].plant_id = oid}

\* GET /GetSensorOutputs/
GetSensorOutputsResponse(roles, bound, id) ==
    IF ~bound THEN Unprocessable("GetSensorOutputs")
    ELSE IF Unauthorized(roles) THEN Denied("GetSensorOutputs")
    ELSE IF ~Truthy(id) THEN Resp("GetSensorOutputs", 400, "Plant ID not provided", NoBody)
    ELSE IF ObjectIdRaises(id) THEN ServerError("GetSensorOutputs")
    ELSE IF MatchReadings(ObjectId(id)) = {}
    THEN Resp("GetSensorOutputs", 404, "No sensor values found", NoBody)
    ELSE Resp("GetSensorOutputs", 200, "ok",
              [kind |-> "list"])

GetSensorOutputsReq(roles, bound, id) ==
    /\ last' = GetSensorOutputsResponse(roles, bound, id)
    /\ UNCHANGED <<store, inflight>>

GetSensorOutputs ==
    \E roles \in RoleSets, bound \in BOOLEAN :
        \E id \in Bodies(bound, AnyIds, NoId) : GetSensorOutputsReq(roles, bound, id)

\* new_sensor_output_object
NewReading(sensor_output, now) ==
    [plant_id |-> ObjectId(sensor_output.plant_id), timestamp |-> now,
     temperature |-> sensor_output.temperature,
     soil_moisture |-> sensor_output.soil_moisture,
     light_level |-> sensor_output.light_level, humidity |-> sensor_output.humidity]

\* A create_sensor_output that looks the plant up first.
CreateSensorOutputEarlyChecked(roles, bound, sensor_output) ==
    IF ~bound THEN Unprocessable("CreateSensorOutput")
    ELSE IF Unauthorized(roles) THEN Denied("CreateSensorOutput")
    ELSE IF ObjectIdRaises(sensor_output.plant_id) THEN ServerError("CreateSensorOutput")
    ELSE IF ObjectId(sensor_output.plant_id) \notin DOMAIN plants
    THEN Resp("CreateSensorOutput", 400, "Plant not found", NoBody)
    ELSE NoBody

\* What create_sensor_output answers before it reaches insert_one, NoBody
\* when it reaches it.
CreateSensorOutputEarly(roles, bound, sensor_output) ==
    IF ~bound THEN Unprocessable("CreateSensorOutput")
    ELSE IF Unauthorized(roles) THEN Denied("CreateSensorOutput")
    ELSE IF ObjectIdRaises(sensor_output.plant_id) THEN ServerError("CreateSensorOutput")
    ELSE NoBody

\* POST /CreateSensorOutput/
CreateSensorOutputReq(roles, bound, sensor_output, now) ==
    LET early == CreateSensorOutputEarly(roles, bound, sensor_output)
    IN IF early # NoBody
    THEN /\ last' = early
         /\ UNCHANGED <<store, inflight>>
    ELSE /\ Len(sensor_outputs) < MaxReadings
         /\ sensor_outputs' = Append(sensor_outputs, NewReading(sensor_output, now))
         /\ last' = Resp("CreateSensorOutput", 201, "created",
                         [kind |-> "created", id |-> ToString(Len(sensor_outputs) + 1)])
         /\ UNCHANGED <<plants, plantSeq, devices, blobs, inflight>>

CreateSensorOutput ==
    \E roles \in RoleSets, bound \in BOOLEAN, now \in Times :
        \E sensor_output \in Bodies(bound, SensorModels, UnboundSensor) :
            CreateSensorOutputReq(roles, bound, sensor_output, now)

\* ----------------------------------------------------------------- devices
\* Values of a stored document's plant_id field.  The store compares values
\* by type and content: a string never equals an ObjectId.
Null == [t |-> "null", v |-> NoId]
StrValue(s) == [t |-> "str", v |-> s]
OidValue(oid) == [t |-> "oid", v |-> ToString(oid)]

\* An optional device_name of a request.
NoName == [given |-> FALSE, s |-> ""]
Name(s) == [given |-> TRUE, s |-> s]

\* The answer to a handler that returns (does not raise) an HTTPException:
\* the framework encodes the returned object as the body of a 200.
Returned(op, code, detail) == Resp(op, 200, detail, [kind |-> "exception", status_code |-> code])

\* GET /GetDevices/
GetDevicesResponse(roles) ==
    IF Unauthorized(roles) THEN Denied("GetDevices")
    ELSE Resp("GetDevices", 200, "ok", [kind |-> "list"])

GetDevicesReq(roles) ==
    /\ last' = GetDevicesResponse(roles)
    /\ UNCHANGED <<store, inflight>>

GetDevices == \E roles \in RoleSets : GetDevicesReq(roles)

\* GET /GetAvailableDevices/: find({"plant_id": None})
AvailableDevicesResponse(roles) ==
    IF Unauthorized(roles) THEN Denied("GetAvailableDevices")
    ELSE Resp("GetAvailableDevices", 200, "ok",
              [kind |-> "list"])

AvailableDevicesReq(roles) ==
    /\ last' = AvailableDevicesResponse(roles)
    /\ UNCHANGED <<store, inflight>>

GetAvailableDevices == \E roles \in RoleSets : AvailableDevicesReq(roles)

\* The DeviceQuery bodies that requests send: a device_id, a plant_id, or
\* a device_id together with a plant_id.
DeviceQueries ==
    {[device_id |-> d, plant_id |-> NoId] : d \in AnyIds}
    \cup {[device_id |-> NoId, plant_id |-> p] : p \in {Hex(1, FALSE), BadId}}
    \cup {[device_id |-> Hex(1, FALSE), plant_id |-> Hex(1, FALSE)]}

\* The devices find_one(query) may return: the query is on _id when a
\* device_id is given and on plant_id otherwise.
FindDevice(device_id, plant_id) ==
    IF Truthy(device_id)
    THEN {d \in DOMAIN devices : d = ObjectId(device_id)}
    ELSE {d \in DOMAIN devices : devices[d].plant_id = OidValue(ObjectId(plant_id))}

\* The device as get_device returns it: _id and plant_id through str().
DeviceBody(d) ==
    [kind |-> "device", _id |-> ToString(d), device_name |-> devices[d].device_name,
     plant_id |-> devices[d].plant_id.v]

\* GET /GetDevice with the device find_one returned, 0 for none.
GetDeviceResponse(roles, bound, device_id, plant_id, found) ==
    IF ~bound THEN Unprocessable("GetDevice")
    ELSE IF Unauthorized(roles) THEN Denied("GetDevice")
    ELSE IF ~Truthy(device_id) /\ ~Truthy(plant_id)
    THEN Returned("GetDevice", 400, "You must provide either a device ID or plant ID")
    ELSE IF ObjectIdRaises(IF Truthy(device_id) THEN device_id ELSE plant_id)
    THEN ServerError("GetDevice")
    ELSE IF found = 0 THEN Returned("GetDevice", 404, "Device not found")
    ELSE Resp("GetDevice", 200, "ok", DeviceBody(found))

GetDeviceReq(roles, bound, device_id, plant_id) ==
    /\ \E found \in (IF FindDevice(device_id, plant_id) = {} THEN {0}
                     ELSE FindDevice(device_id, plant_id)) :
           last' = GetDeviceResponse(roles, bound, device_id, plant_id, found)
    /\ UNCHANGED <<store, inflight>>

GetDevice ==
    \E roles \in RoleSets, bound \in BOOLEAN :
        \E q \in Bodies(bound, DeviceQueries, [device_id |-> NoId, plant_id |-> NoId]) :
            GetDeviceReq(roles, bound, q.device_id, q.plant_id)

\* The plant_id values of the device bodies that requests send: none, "",
\* or the id of the first plant as create_plant returned it.
LinkIds == {NoId, EmptyId, ToString(1)}

\* request_body._id: the CreateDevice model declares _id with a leading
\* underscore, so it is a private attribute that no request sets, and reading
\* it raises AttributeError.
PrivateIdRaises == TRUE

\* The CreateDevice model: plant_id is a required string, so a body without
\* plant_id does not bind.
CreateDeviceBinds(plant_id) == plant_id # NoId

\* POST /CreateDevice/
CreateDeviceReq(roles, bound, device_name, plant_id, sent_id) ==
    IF ~bound \/ Unauthorized(roles) \/ PrivateIdRaises \/ ObjectIdRaises(sent_id)
    THEN /\ last' = IF ~bound THEN Unprocessable("CreateDevice")
                    ELSE IF Unauthorized(roles) THEN Denied("CreateDevice")
                    ELSE ServerError("CreateDevice")
         /\ UNCHANGED <<store, inflight>>
    ELSE /\ ObjectId(sent_id) \notin DOMAIN devices
         /\ devices' = InsertOne(devices, ObjectId(sent_id),
                [device_name |-> device_name,
                 plant_id |-> IF plant_id # EmptyId THEN StrValue(plant_id) ELSE Null])
         /\ last' = Resp("CreateDevice", 200, "ok",
                [kind |-> "device", _id |-> ToString(ObjectId(sent_id)),
                 device_name |-> device_name, plant_id |-> plant_id])
         /\ UNCHANGED <<plants, plantSeq, sensor_outputs, blobs, inflight>>

CreateDevice ==
    \E roles \in RoleSets, plant_id \in LinkIds :
        CreateDeviceReq(roles, CreateDeviceBinds(plant_id), "sensor-01", plant_id,
                        Hex(MaxId, FALSE))

\* The device_id values of the UpdateDevice bodies that requests send.
DeviceIds == {Hex(1, FALSE), Hex(1, TRUE), BadId}

\* update_data of update_device.
DeviceUpdateData(plant_id, device_name) ==
    [f \in (IF plant_id # NoId THEN {"plant_id"} ELSE {}) \cup
           (IF device_name.given THEN {"device_name"} ELSE {}) |->
        IF f = "plant_id"
        THEN (IF plant_id = EmptyId THEN Null ELSE StrValue(plant_id))
        ELSE device_name.s]

\* PUT /UpdateDevice/ 
UpdateDeviceResponse(roles, bound, device_id, plant_id, device_name) ==
    IF ~bound THEN Unprocessable("UpdateDevice")
    ELSE IF Unauthorized(roles) THEN Denied("UpdateDevice")
    ELSE IF ObjectIdRaises(device_id) THEN ServerError("UpdateDevice")
    ELSE IF DOMAIN DeviceUpdateData(plant_id, device_name) = {}
    THEN Returned("UpdateDevice", 400, "No fields provided for update")
    ELSE IF ObjectId(device_id) \notin DOMAIN devices
    THEN Returned("UpdateDevice", 404, "Device not found")
    ELSE Resp("UpdateDevice", 200, "Device updated successfully", NoBody)

UpdateDeviceReq(roles, bound, device_id, plant_id, device_name) ==
    /\ last' = UpdateDeviceResponse(roles, bound, device_id, plant_id, device_name)
    /\ devices' = IF last'.detail = "Device updated successfully"
                  THEN [devices EXCEPT ![ObjectId(device_id)] =
                            SetFields(@, DeviceUpdateData(plant_id, device_name))]
                  ELSE devices
    /\ UNCHANGED <<plants, plantSeq, sensor_outputs, blobs, inflight>>

UpdateDevice ==
    \E roles \in RoleSets, bound \in BOOLEAN :
        \E device_id \in Bodies(bound, DeviceIds, NoId), plant_id \in Bodies(bound, LinkIds, NoId),
           device_name \in Bodies(bound, {NoName, Name("sensor-02")}, NoName) :
            UpdateDeviceReq(roles, bound, device_id, plant_id, device_name)

\* DELETE /DeleteDevice/
DeleteDeviceResponse(roles, bound, id) ==
    IF ~bound THEN Unprocessable("DeleteDevice")
    ELSE IF Unauthorized(roles) THEN Denied("DeleteDevice")
    ELSE IF ~Truthy(id) THEN Resp("DeleteDevice", 400, "Device ID not provided", NoBody)
    ELSE IF ObjectIdRaises(id) THEN ServerError("DeleteDevice")
    ELSE IF ObjectId(id) \notin DOMAIN devices
    THEN Resp("DeleteDevice", 404, "Device not found", NoBody)
    ELSE Resp("DeleteDevice", 204, "Device deleted successfully", NoBody)

DeleteDeviceReq(roles, bound, id) ==
    /\ last' = DeleteDeviceResponse(roles, bound, id)
    /\ devices' = IF last'.status = 204 THEN DeleteOne(devices, ObjectId(id)) ELSE devices
    /\ UNCHANGED <<plants, plantSeq, sensor_outputs, blobs, inflight>>

DeleteDevice ==
    \E roles \in RoleSets, bound \in BOOLEAN :
        \E id \in Bodies(bound, AnyIds, NoId) : DeleteDeviceReq(roles, bound, id)

\* ------------------------------------------------------------ specification
\* The devices collection is provisioned outside the router (create_device
\* stores nothing): each device starts unlinked.
Provisioned == [d \in 1..MaxDevices |-> [device_name |-> "sensor-01", plant_id |-> Null]]

Init ==
    /\ plants = <<>>
    /\ plantSeq = 0
    /\ sensor_outputs = <<>>
    /\ devices = Provisioned
    /\ blobs = {}
    /\ inflight = [c \in Clients |-> Idle]
    /\ last = Resp("none", 0, "", NoBody)

Next ==
    \/ GetPlants
    \/ GetPlant
    \/ UpdatePlant
    \/ DeletePlant
    \/ CreatePlant
    \/ UploadPlantImage
    \/ GetSensorOutputs
    \/ CreateSensorOutput
    \/ GetDevices
    \/ GetAvailableDevices
    \/ GetDevice
    \/ CreateDevice
    \/ UpdateDevice
    \/ DeleteDevice

Spec == Init /\ [][Next]_vars

\* The plant endpoints served concurrently: the two-call handlers arrive,
\* are suspended at their second call and resume.
RaceNext ==
    \/ GetPlants
    \/ GetPlant
    \/ CreatePlant
    \/ UpdatePlantArrive
    \/ DeletePlantArrive
    \/ UploadPlantImageArrive
    \/ \E c \in Clients : UpdatePlantWrite(c)
    \/ \E c \in Clients : DeletePlantWrite(c)
    \/ \E c \in Clients : UploadPlantImageWrite(c)

RaceSpec == Init /\ [][RaceNext]_vars

\* ------------------------------------------------------------------ claims
\* A request of a caller with these roles, to any endpoint, with any body.
RequestBy(roles) ==
    \/ GetPlantsReq(roles)
    \/ \E bound \in BOOLEAN : \E id \in Bodies(bound, AnyIds, NoId) :
           GetPlantReq(roles, bound, id)
    \/ \E bound \in BOOLEAN :
           \E updated_plant \in Bodies(bound, PlantModels, WithId(BasilPlant, NoId)) :
               UpdatePlantCall(roles, bound, updated_plant)
    \/ \E bound \in BOOLEAN : \E id \in Bodies(bound, AnyIds, NoId) :
           DeletePlantCall(roles, bound, id)
    \/ \E bound \in BOOLEAN, plant \in CreatePlantModels : CreatePlantReq(roles, bound, plant)
    \/ \E bound \in BOOLEAN : \E plant_id \in Bodies(bound, StrIds \ {EmptyId}, EmptyId) :
           UploadPlantImageCall(roles, bound, plant_id)
    \/ \E bound \in BOOLEAN : \E id \in Bodies(bound, AnyIds, NoId) :
           GetSensorOutputsReq(roles, bound, id)
    \/ \E bound \in BOOLEAN, now \in Times :
           \E sensor_output \in Bodies(bound, SensorModels, UnboundSensor) :
               CreateSensorOutputReq(roles, bound, sensor_output, now)
    \/ GetDevicesReq(roles)
    \/ AvailableDevicesReq(roles)
    \/ \E bound \in BOOLEAN :
           \E q \in Bodies(bound, DeviceQueries, [device_id |-> NoId, plant_id |-> NoId]) :
               GetDeviceReq(roles, bound, q.device_id, q.plant_id)
    \/ \E plant_id \in LinkIds :
           CreateDeviceReq(roles, CreateDeviceBinds(plant_id), "sensor-01", plant_id,
                           Hex(MaxId, FALSE))
    \/ \E bound \in BOOLEAN :
           \E device_id \in Bodies(bound, DeviceIds, NoId),
              plant_id \in Bodies(bound, LinkIds, NoId),
              device_name \in Bodies(bound, {NoName, Name("sensor-02")}, NoName) :
               UpdateDeviceReq(roles, bound, device_id, plant_id, device_name)
    \/ \E bound \in BOOLEAN : \E id \in Bodies(bound, AnyIds, NoId) :
           DeleteDeviceReq(roles, bound, id)

\* C1: a caller whose roles hold neither "plant_monitoring" nor "admin" is
\* answered 401 by every endpoint, whatever the body of the request, and the
\* request changes nothing in the database or the bucket.
C1_UnauthorizedIs401 ==
    [][\A roles \in RoleSets :
           (Unauthorized(roles) /\ RequestBy(roles)) =>
               (last'.status = 401 /\ UNCHANGED store)]_vars

\* The 4xx statuses.
ClientError(status) == status >= 400 /\ status < 500

\* C2: deleting a plant or a device that is not stored is answered with the
\* not-found response of the endpoint, a client error and never a 500, and
\* leaves every collection and the bucket unchanged.
C2_DeleteMissingIsNotFound ==
    [][/\ last'.op = "DeletePlant" =>
            \A roles \in RoleSets, id \in HexIds :
                (/\ ~Unauthorized(roles)
                 /\ ObjectId(id) \notin DOMAIN plants
                 /\ DeletePlantCall(roles, TRUE, id)) =>
                    /\ last'.detail = "Plant not found"
                    /\ ClientError(last'.status)
                    /\ UNCHANGED store
       /\ last'.op = "DeleteDevice" =>
            \A roles \in RoleSets, id \in HexIds :
                (/\ ~Unauthorized(roles)
                 /\ ObjectId(id) \notin DOMAIN devices
                 /\ DeleteDeviceReq(roles, TRUE, id)) =>
                    /\ last'.detail = "Device not found"
                    /\ ClientError(last'.status)
                    /\ UNCHANGED store]_vars

\* A plant that is not stored was asked to be deleted while others are stored.
C2_Witness ==
    /\ last.op = "DeletePlant"
    /\ last.detail = "Plant not found"
    /\ last.status = 400
    /\ DOMAIN plants # {}

\* A request of an authorized caller whose identifier is not convertible to
\* an ObjectId, to any endpoint that takes an identifier.
MalformedRequestBy(roles) ==
    \/ GetPlantReq(roles, TRUE, BadId)
    \/ UpdatePlantCall(roles, TRUE, WithId(BasilPlant, BadId))
    \/ DeletePlantCall(roles, TRUE, BadId)
    \/ UploadPlantImageCall(roles, TRUE, BadId)
    \/ GetSensorOutputsReq(roles, TRUE, BadId)
    \/ \E s \in SensorModels, now \in Times :
           s.plant_id = BadId /\ CreateSensorOutputReq(roles, TRUE, s, now)
    \/ GetDeviceReq(roles, TRUE, BadId, NoId)
    \/ GetDeviceReq(roles, TRUE, NoId, BadId)
    \/ \E plant_id \in LinkIds, device_name \in {NoName, Name("sensor-02")} :
           UpdateDeviceReq(roles, TRUE, BadId, plant_id, device_name)
    \/ DeleteDeviceReq(roles, TRUE, BadId)

\* C3: an authorized request whose identifier is malformed is answered with
\* a client error (4xx), not a 500, by every endpoint that takes an
\* identifier, and changes no stored record.
C3_MalformedIdIsClientError ==
    [][\A roles \in RoleSets :
           (~Unauthorized(roles) /\ MalformedRequestBy(roles)) =>
               (ClientError(last'.status) /\ UNCHANGED store)]_vars

PlantFields == {"name", "type", "location", "description", "imageUrl"}

\* C4: for a stored plant and an update body carrying its id, GetPlant after
\* UpdatePlant returns name, type, location, description and imageUrl equal
\* to the body's, under the id GetPlant returned before the update.
C4_FetchUpdateFetch ==
    [][last'.op = "UpdatePlant" =>
        \A roles \in RoleSets, updated_plant \in PlantModels :
            (/\ ~Unauthorized(roles)
             /\ ~ObjectIdRaises(updated_plant.id)
             /\ ObjectId(updated_plant.id) \in DOMAIN plants
             /\ UpdatePlantCall(roles, TRUE, updated_plant)) =>
                LET before == GetPlantResponse(roles, TRUE, updated_plant.id)
                    after == GetPlantResponse(roles, TRUE, updated_plant.id)'
                IN /\ after.status = 200
                   /\ \A f \in PlantFields : after.body[f] = updated_plant[f]
                   /\ after.body.id = ToString(ObjectId(updated_plant.id))
                   /\ before.status = 200 => after.body.id = before.body.id]_vars

\* GetPlant has returned a plant as an UpdatePlant wrote it.
C4_Witness ==
    /\ last.op = "GetPlant"
    /\ last.status = 200
    /\ \A f \in PlantFields : last.body[f] = BasilPlant[f]
    /\ last.body.id = ToString(1)

\* C5: an UploadPlantImage answered 200 has stored a blob under a fresh key
\* and has persisted its public URL on the plant: when the 200 is sent, the
\* plant exists and its imageUrl is the URL returned, whatever requests ran
\* between the handler's existence check and its update.
C5_UploadSuccessPersists ==
    [][\A c \in Clients :
           (UploadPlantImageWrite(c) /\ last'.status = 200) =>
               /\ last'.body.imageUrl.k \in blobs' \ blobs
               /\ inflight[c].oid \in DOMAIN plants'
               /\ plants'[inflight[c].oid].imageUrl = last'.body.imageUrl]_vars

\* C6: an authorized CreateDevice with a device_name and no plant_id returns
\* and stores a device whose plant link is null; an UpdateDevice then setting
\* plant_id to a stored plant's id succeeds, and GetDevice for the device
\* returns it with that plant_id.
C6_CreateUnlinkedThenLink ==
    [][\A roles \in RoleSets :
           ~Unauthorized(roles) =>
               /\ CreateDeviceReq(roles, CreateDeviceBinds(NoId), "sensor-01", NoId,
                                  Hex(MaxId, FALSE)) =>
                      /\ last'.status \in {200, 201}
                      /\ last'.body.plant_id = NoId
                      /\ \E d \in DOMAIN devices' \ DOMAIN devices :
                             devices'[d].plant_id = Null
               /\ \A device_id \in HexIds, p \in DOMAIN plants :
                      (/\ ObjectId(device_id) \in DOMAIN devices
                       /\ UpdateDeviceReq(roles, TRUE, device_id, ToString(p), NoName)) =>
                          /\ last'.detail = "Device updated successfully"
                          /\ last'.status = 200
                          /\ GetDeviceResponse(roles, TRUE, device_id, NoId,
                                               ObjectId(device_id))'.body.plant_id
                                 = ToString(p)]_vars

\* C7: an authorized UploadPlantImage whose plant id is well-formed and names
\* no stored plant is answered 403, uploads no blob and changes no plant.
C7_UploadMissingPlantIs403 ==
    [][last'.op = "UploadPlantImage" =>
        \A roles \in RoleSets, plant_id \in HexIds :
            (/\ ~Unauthorized(roles)
             /\ ObjectId(plant_id) \notin DOMAIN plants
             /\ UploadPlantImageCall(roles, TRUE, plant_id)) =>
                /\ last'.status = 403
                /\ UNCHANGED store]_vars

\* An upload for a plant that is not stored was refused while another plant
\* is stored.
C7_Witness ==
    /\ last.op = "UploadPlantImage"
    /\ last.status = 403
    /\ DOMAIN plants # {}

\* C8: an authorized CreateSensorOutput whose plant_id is well-formed and
\* names no stored plant is answered 201 and appends exactly one reading,
\* carrying that plant_id, to the collection; nothing else changes.
C8_ReadingForMissingPlantIsCreated ==
    [][last'.op = "CreateSensorOutput" =>
        \A roles \in RoleSets, s \in SensorModels, now \in Times :
            (/\ ~Unauthorized(roles)
             /\ ~ObjectIdRaises(s.plant_id)
             /\ ObjectId(s.plant_id) \notin DOMAIN plants
             /\ CreateSensorOutputReq(roles, TRUE, s, now)) =>
                /\ last'.status = 201
                /\ Len(sensor_outputs') = Len(sensor_outputs) + 1
                /\ SubSeq(sensor_outputs', 1, Len(sensor_outputs)) = sensor_outputs
                /\ sensor_outputs'[Len(sensor_outputs')].plant_id = ObjectId(s.plant_id)
                /\ UNCHANGED <<plants, plantSeq, devices, blobs>>]_vars

\* A reading was created for a plant that is not stored.
C8_Witness ==
    /\ last.op = "CreateSensorOutput"
    /\ last.status = 201
    /\ sensor_outputs # <<>>
    /\ sensor_outputs[Len(sensor_outputs)].plant_id \notin DOMAIN plants

\* C9: a successful DeletePlant removes the plant with the given id and
\* nothing else: the other plants, every reading (those of the deleted plant
\* among them) and every device (its plant_id included) stay as they were.
C9_DeletePlantRemovesOnlyThePlant ==
    [][(last'.op = "DeletePlant" /\ last'.status = 201) =>
        \A roles \in RoleSets, id \in AnyIds :
            DeletePlantCall(roles, TRUE, id) =>
                /\ ObjectId(id) \in DOMAIN plants
                /\ DOMAIN plants' = DOMAIN plants \ {ObjectId(id)}
                /\ \A o \in DOMAIN plants' : plants'[o] = plants[o]
                /\ UNCHANGED <<sensor_outputs, devices, blobs, plantSeq>>]_vars

\* Plant 1 was deleted while a reading and a device refer to it and another
\* plant is stored.
C9_Witness ==
    /\ last.op = "DeletePlant"
    /\ last.status = 201
    /\ last.body.id = ToString(1)
    /\ DOMAIN plants = {2}
    /\ \E i \in DOMAIN sensor_outputs : sensor_outputs[i].plant_id = 1
    /\ \E d \in DOMAIN devices : devices[d].plant_id = StrValue(ToString(1))

\* C10: no request to any endpoint changes or removes a stored reading.
C10_ReadingsAreImmutable ==
    [][\A i \in DOMAIN sensor_outputs :
           /\ i \in DOMAIN sensor_outputs'
           /\ sensor_outputs'[i] = sensor_outputs[i]]_vars

\* The reading of a plant that was created and deleted since is still
\* returned by GetSensorOutputs.
C10_Witness ==
    /\ last.op = "GetSensorOutputs"
    /\ last.status = 200
    /\ sensor_outputs # <<>>
    /\ sensor_outputs[1].plant_id \notin DOMAIN plants
    /\ sensor_outputs[1].plant_id <= plantSeq

\* C11: when two authorized DeletePlant requests for the same stored plant
\* are served concurrently, whatever the order of their find_one and
\* delete_one calls, the request whose delete_one finds the plant is
\* answered with the success response and removes it, and the request whose
\* delete_one finds it already removed is answered "Plant not found";
\* neither is answered 500.
C11_ConcurrentDeletesOneSuccessOneNotFound ==
    [][\A c \in Clients :
           DeletePlantWrite(c) =>
               /\ last'.status # 500
               /\ IF inflight[c].oid \in DOMAIN plants
                  THEN /\ last'.status = 201
                       /\ inflight[c].oid \notin DOMAIN plants'
                  ELSE /\ last'.detail = "Plant not found"
                       /\ ClientError(last'.status)]_vars

\* C12: a device whose plant_id an UpdateDevice has set to the id of a
\* stored plant (the only writer of a string plant_id, and the device has
\* not been changed since) is found by an authorized GetDevice that gives
\* only that plant_id: the answer is a device linked to the plant, not
\* "Device not found".
C12_LinkedDeviceFoundByPlant ==
    [][last'.op = "GetDevice" =>
        \A roles \in RoleSets, p \in DOMAIN plants, d \in DOMAIN devices :
            (/\ ~Unauthorized(roles)
             /\ devices[d].plant_id = StrValue(ToString(p))
             /\ GetDeviceReq(roles, TRUE, NoId, ToString(p))) =>
                /\ last'.detail # "Device not found"
                /\ last'.body.kind = "device"
                /\ last'.body.plant_id = ToString(p)
                /\ \E e \in DOMAIN devices :
                       /\ devices[e].plant_id = StrValue(ToString(p))
                       /\ last'.body._id = ToString(e)]_vars

====
